---- MODULE Spec2Model ----
(***************************************************************************)
(* Model of scripts/make_sql_for_granafa.py: the CSV normalizer, the       *)
(* spreadsheet normalizer, the date canonicalizer, the SQLite store writer *)
(* and the module-level pipeline driver.                                   *)
(*                                                                         *)
(* A pandas DataFrame is a record [cols, rows]: cols is the set of column  *)
(* names, rows the sequence of rows, each row a function from column names *)
(* to cell values.  A column that is missing from a row's domain is a NaN  *)
(* cell (what pd.concat fills in, what an empty CSV cell reads as).        *)
(*                                                                         *)
(* TLA+ strings are ASCII, so the Japanese column names are written with   *)
(* the names of the persisted schema in English:                           *)
(*   ID -> "ID", 計算対象 -> "IncludeInCalculation", 日付 -> "Date",       *)
(*   内容 -> "Description", 金額 -> "Amount", 金額（円） -> "AmountYen",   *)
(*   保有金融機関 -> "HoldingAccount", 大項目 -> "MajorCategory",          *)
(*   中項目 -> "MinorCategory", メモ -> "Memo", 振替 -> "TransferFlag",    *)
(*   U1金額 (円) -> "U1AmountYen", U2 負担 -> "U2Share",                   *)
(*   U2金額 (円) -> "U2AmountYen", U1 比率 -> "U1Ratio",                   *)
(*   U2 比率 -> "U2Ratio", 清算済Flag -> "SettledFlag".                    *)
(* A text cell is a sequence of characters; the two characters of 出張     *)
(* are written "S" (出) and "C" (張).                                      *)
(***************************************************************************)
EXTENDS Integers, Sequences, FiniteSets, Bags, TLC

VARIABLES
    csvIn,        \* argument df of preprocess_csv_data
    csvOut,       \* the frame it returned
    csvPc,        \* "ready" | "returned" | "raised"
    xlIn,         \* argument df of preprocess_excel_data (one sheet)
    xlU1,         \* argument u1
    xlOut,        \* the frame it returned
    xlPc,         \* "ready" | "returned" | "raised"
    store,        \* the SQLite file: table name -> table
    conn,         \* connection of the latest run: "none" | "open" | "closed"
    outcome,      \* how the latest run ended: "none" | "ok" | "error"
    stage,        \* where the latest run ended: "none" | "normalize" | "dates" | "store"
    callTable,    \* table_name of the latest insert_data_to_sqlite call
    callDf,       \* df of the latest insert_data_to_sqlite call
    callReplace,  \* replace of the latest insert_data_to_sqlite call
    priorIds      \* the IDs table_name held when that call began

vars == <<csvIn, csvOut, csvPc, xlIn, xlU1, xlOut, xlPc,
          store, conn, outcome, stage, callTable, callDf, callReplace, priorIds>>

csvVars == <<csvIn, csvOut, csvPc>>
xlVars == <<xlIn, xlU1, xlOut, xlPc>>
storeVars == <<store, conn, outcome, stage, callTable, callDf, callReplace, priorIds>>

-----------------------------------------------------------------------------
(* Bounds of the model *)

\* rows of a frame handed to preprocess_csv_data
MaxCsvRows == 2
\* rows of a sheet handed to preprocess_excel_data
MaxSheetRows == 2
\* rows of a batch handed directly to insert_data_to_sqlite
MaxBatch == 2
\* rows one table of the store may hold (calls that would exceed it are not made)
MaxRows == 3

-----------------------------------------------------------------------------
(* DataFrames *)

EmptyFrame == [cols |-> {}, rows |-> <<>>]

HasCell(r, c) == c \in DOMAIN r

Range(s) == {s[i] : i \in DOMAIN s}

\* pd.concat([a, b]): union of the columns, the rows of a then the rows of b
Concat(a, b) == [cols |-> a.cols \cup b.cols, rows |-> a.rows \o b.rows]

\* df[[c1, c2, ...]]: the listed columns only
Project(df, cs) ==
    [cols |-> cs,
     rows |-> [i \in DOMAIN df.rows |->
                  [c \in (cs \cap DOMAIN df.rows[i]) |-> df.rows[i][c]]]]

\* the row r with cell c set to v (added when r has no such cell)
SetCell(r, c, v) == [k \in (DOMAIN r \cup {c}) |-> IF k = c THEN v ELSE r[k]]

-----------------------------------------------------------------------------
(* CSV normalizer *)

\* "出張"
Travel == <<"S", "C">>

\* Python `t in x` on strings
Contains(x, t) ==
    \E i \in 1..(Len(x) - Len(t) + 1) : SubSeq(x, i, i + Len(t) - 1) = t

\* RewriteMajor without the rewrite: lambda x: x
RewriteMajor_Unchanged(x) == x

\* lambda x: "出張" if "出張" in x else x
RewriteMajor(x) == IF Contains(x, Travel) THEN Travel ELSE x

\* df[df["計算対象"] == v]; a NaN flag equals nothing
FlagIs(r, v) == HasCell(r, "IncludeInCalculation") /\ r["IncludeInCalculation"] = v

RowsWithFlag(df, v) == SelectSeq(df.rows, LAMBDA r : FlagIs(r, v))

\* df_zero["大項目"].apply(...) raises TypeError on a NaN cell (a float is not iterable)
ZeroRowsRaise(df) ==
    \E i \in DOMAIN df.rows :
        FlagIs(df.rows[i], 0) /\ ~HasCell(df.rows[i], "MajorCategory")

\* RewriteZeroRows that also drops the rows whose 大項目 does not hold 出張
RewriteZeroRows_TravelOnly(rows) ==
    LET kept == SelectSeq(rows, LAMBDA r : Contains(r["MajorCategory"], Travel))
    IN  [i \in DOMAIN kept |-> [kept[i] EXCEPT !["MajorCategory"] = Travel]]

RewriteZeroRows(rows) ==
    [i \in DOMAIN rows |->
        [rows[i] EXCEPT !["MajorCategory"] = RewriteMajor(rows[i]["MajorCategory"])]]

\* preprocess_csv_data(df): [raised, df]
preprocess_csv_data(df) ==
    IF ZeroRowsRaise(df)
    THEN [raised |-> TRUE, df |-> EmptyFrame]
    ELSE [raised |-> FALSE,
          df |-> [cols |-> df.cols,
                  rows |-> RowsWithFlag(df, 1) \o RewriteZeroRows(RowsWithFlag(df, 0))]]

-----------------------------------------------------------------------------
(* Spreadsheet normalizer *)

(* A 金額（円） cell is the number num/den in lowest terms with den > 0; den = 0 *)
(* is what float64 division by zero leaves in the cell: 1/0 is inf, -1/0 is    *)
(* -inf and 0/0 is NaN.  The rounding of the quotient to float64 is left out.  *)
Abs(n) == IF n < 0 THEN -n ELSE n

Sign(n) == IF n > 0 THEN 1 ELSE IF n < 0 THEN -1 ELSE 0

RECURSIVE GCD(_, _)
GCD(a, b) == IF b = 0 THEN a ELSE GCD(b, a % b)

Num(n) == [num |-> n, den |-> 1]

NaN == [num |-> 0, den |-> 0]

IsFinite(x) == x.den # 0

\* a / b on numeric columns: no exception, inf or NaN where b is 0
Div(a, b) ==
    IF b = 0
    THEN [num |-> Sign(a), den |-> 0]
    ELSE LET g == GCD(Abs(a), Abs(b))
         IN  [num |-> (Sign(b) * a) \div g, den |-> Abs(b) \div g]

\* the column list of the projection
ProjectedCols ==
    {"ID", "Date", "Description", "AmountYen", "MajorCategory", "MinorCategory",
     "Memo", "IncludeInCalculation"}

\* if "計算対象" not in df.columns: df["計算対象"] = 1
WithIncludeColumn(df) ==
    IF "IncludeInCalculation" \in df.cols
    THEN df
    ELSE [cols |-> df.cols \cup {"IncludeInCalculation"},
          rows |-> [i \in DOMAIN df.rows |->
                       SetCell(df.rows[i], "IncludeInCalculation", 1)]]

\* the columns the amount expression reads
AmountInputs(u1) ==
    IF u1 THEN {"U1AmountYen", "U2Share"} ELSE {"U2AmountYen", "U1Ratio", "U2Ratio"}

\* df["U1金額 (円)"] - df["U2 負担"], for one row
U1Amount(r) ==
    IF AmountInputs(TRUE) \subseteq DOMAIN r
    THEN Num(r["U1AmountYen"] - r["U2Share"])
    ELSE NaN

\* U2Amount that takes U2金額 (円) as it is
U2Amount_RawVerbatim(r) == Num(r["U2AmountYen"])

\* df["U2金額 (円)"] * df["U1 比率"] / (df["U1 比率"] + df["U2 比率"]), for one row
U2Amount(r) ==
    IF AmountInputs(FALSE) \subseteq DOMAIN r
    THEN Div(r["U2AmountYen"] * r["U1Ratio"], r["U1Ratio"] + r["U2Ratio"])
    ELSE NaN

SettledAmount(r, u1) == IF u1 THEN U1Amount(r) ELSE U2Amount(r)

WithAmountColumn(df, u1) ==
    [cols |-> df.cols \cup {"AmountYen"},
     rows |-> [i \in DOMAIN df.rows |->
                  SetCell(df.rows[i], "AmountYen", SettledAmount(df.rows[i], u1))]]

\* preprocess_excel_data(df, u1): [raised, df]; a missing column is a KeyError
preprocess_excel_data(df, u1) ==
    LET d1 == WithIncludeColumn(df)
        d2 == WithAmountColumn(d1, u1)
    IN  IF ~(AmountInputs(u1) \subseteq d1.cols) \/ ~(ProjectedCols \subseteq d2.cols)
        THEN [raised |-> TRUE, df |-> EmptyFrame]
        ELSE [raised |-> FALSE, df |-> Project(d2, ProjectedCols)]

-----------------------------------------------------------------------------
(* Date canonicalizer *)

(* pd.to_datetime(...).dt.date: the texts below are the date texts of the   *)
(* model's inputs; a text with a time of day loses it, a text that is no    *)
(* date raises.                                                             *)
DateTexts == {"2024/01/05", "2024-01-05 10:30", "2024-02-01"}

ParseDate(t) ==
    CASE t = "2024/01/05" -> <<2024, 1, 5>>
      [] t = "2024-01-05 10:30" -> <<2024, 1, 5>>
      [] t = "2024-02-01" -> <<2024, 2, 1>>

DatesRaise(df, c) ==
    \/ c \notin df.cols
    \/ \E i \in DOMAIN df.rows :
          HasCell(df.rows[i], c) /\ df.rows[i][c] \notin DateTexts

\* convert_dates_to_string(df, date_columns) for one column; a NaN cell stays NaT
ConvertColumn(df, c) ==
    [cols |-> df.cols,
     rows |-> [i \in DOMAIN df.rows |->
                  IF HasCell(df.rows[i], c)
                  THEN [df.rows[i] EXCEPT ![c] = ParseDate(df.rows[i][c])]
                  ELSE df.rows[i]]]

\* convert_dates_to_string(df, ["日付"]): [raised, df]
convert_dates_to_string(df) ==
    IF DatesRaise(df, "Date")
    THEN [raised |-> TRUE, df |-> EmptyFrame]
    ELSE [raised |-> FALSE, df |-> ConvertColumn(df, "Date")]

-----------------------------------------------------------------------------
(* Inputs of the normalizers *)

IndexSets(n) == {1..k : k \in 0..n}

\* 大項目 texts: 食費, 出張, 海外出張, 出張費, 出x張, 張出
MajorTexts ==
    {<<"F">>, <<"S", "C">>, <<"x", "S", "C">>, <<"S", "C", "x">>,
     <<"S", "x", "C">>, <<"C", "S">>}

\* a 大項目 cell: <<text>>, or <<>> for an empty cell (read as NaN)
MajorChoices == {<<t>> : t \in MajorTexts} \cup {<<>>}

\* 計算対象 cells of a CSV export
Flags == {0, 1, 2}

CsvCols == {"ID", "IncludeInCalculation", "Date", "Description", "AmountYen", "MajorCategory"}

CsvRow(id, flag, major, date) ==
    LET r == [ID |-> id, IncludeInCalculation |-> flag, Date |-> date,
              Description |-> "d", AmountYen |-> Num(-1200)]
    IN  IF major = <<>> THEN r ELSE SetCell(r, "MajorCategory", major[1])

\* the frames load_csv_data may return: row i has ID i
CsvFrames ==
    {[cols |-> CsvCols,
      rows |-> [i \in D |-> CsvRow(i, f[i], m[i], "2024/01/05")]] :
        <<D, f, m>> \in UNION {{<<D, f, m>> : f \in [D -> Flags], m \in [D -> MajorChoices]} :
                                D \in IndexSets(MaxCsvRows)}}

SheetBase(id) ==
    [ID |-> id, Date |-> "2024-02-01", Description |-> "d", MajorCategory |-> <<"F">>,
     MinorCategory |-> "m", Memo |-> "memo", SettledFlag |-> TRUE]

SheetBaseCols == {"ID", "Date", "Description", "MajorCategory", "MinorCategory", "Memo", "SettledFlag"}

\* U1金額 (円) and U2 負担 of a U1 row
U1Cells == {[U1AmountYen |-> a, U2Share |-> s] : a \in {3000, -500}, s \in {1000, 0}}

\* U2金額 (円), U1 比率 and U2 比率 of a U2 row: 900 * 1 / 3, 1000 * 1 / 3, -900 * 2 / 4,
\* 0 * 1 / 2, and three rows whose ratios add up to 0
U2Cells ==
    {[U2AmountYen |-> x[1], U1Ratio |-> x[2], U2Ratio |-> x[3]] :
        x \in {<<900, 1, 2>>, <<1000, 1, 2>>, <<-900, 2, 2>>, <<0, 1, 1>>,
               <<900, 0, 0>>, <<900, 1, -1>>, <<-900, 1, -1>>}}

\* the 計算対象 column of a sheet: <<>> when the sheet has none, else <<v>> in every row
IncludeChoices == {<<>>, <<0>>, <<1>>}

SheetRow(id, cells, inc) ==
    LET r == [c \in (DOMAIN SheetBase(id) \cup DOMAIN cells) |->
                 IF c \in DOMAIN cells THEN cells[c] ELSE SheetBase(id)[c]]
    IN  IF inc = <<>> THEN r ELSE SetCell(r, "IncludeInCalculation", inc[1])

SheetFrames(Cells, first) ==
    {[cols |-> SheetBaseCols \cup DOMAIN (CHOOSE c \in Cells : TRUE)
                 \cup (IF inc = <<>> THEN {} ELSE {"IncludeInCalculation"}),
      rows |-> [i \in D |-> SheetRow(first + i, x[i], inc)]] :
        <<D, x, inc>> \in UNION {{<<D, x, inc>> : x \in [D -> Cells], inc \in IncludeChoices} :
                                  D \in IndexSets(MaxSheetRows)}}

\* the frames pd.read_excel may return for the sheets U1 and U2
U1Frames == SheetFrames(U1Cells, 10)

U2Frames == SheetFrames(U2Cells, 20)

-----------------------------------------------------------------------------
(* The normalizers as operations *)

CsvPreprocess ==
    /\ csvPc = "ready"
    /\ LET res == preprocess_csv_data(csvIn)
       IN  /\ csvPc' = IF res.raised THEN "raised" ELSE "returned"
           /\ csvOut' = res.df
    /\ UNCHANGED <<csvIn, xlVars, storeVars>>

ExcelPreprocess ==
    /\ xlPc = "ready"
    /\ LET res == preprocess_excel_data(xlIn, xlU1)
       IN  /\ xlPc' = IF res.raised THEN "raised" ELSE "returned"
           /\ xlOut' = res.df
    /\ UNCHANGED <<xlIn, xlU1, csvVars, storeVars>>

-----------------------------------------------------------------------------
(* Store writer *)

(* The SQLite file is a function from table names to tables.  A table is    *)
(* [exists, pk, cols, rows]: pk says whether ID is declared PRIMARY KEY,    *)
(* cols is the set of its columns and rows the bag of its rows; a cell a    *)
(* row does not give is NULL.                                               *)

\* the table the CREATE TABLE statement names, and the table_name of the driver
TableNames == {"my_table", "financial_data"}

\* the columns of CREATE TABLE IF NOT EXISTS my_table (...)
FullSchema ==
    {"ID", "IncludeInCalculation", "Date", "Description", "Amount", "HoldingAccount",
     "MajorCategory", "MinorCategory", "Memo", "TransferFlag"}

NoTable == [exists |-> FALSE, pk |-> FALSE, cols |-> {}, rows |-> EmptyBag]

EmptyStore == [t \in TableNames |-> NoTable]

SeqToBag(s) == [r \in Range(s) |-> Cardinality({i \in DOMAIN s : s[i] = r})]

TableIds(t) == {r["ID"] : r \in BagToSet(t.rows)}

\* cursor.execute("CREATE TABLE IF NOT EXISTS my_table (...)"), outside any transaction
EnsureSchema(s) ==
    IF s["my_table"].exists
    THEN s
    ELSE [s EXCEPT !["my_table"] =
             [exists |-> TRUE, pk |-> TRUE, cols |-> FullSchema, rows |-> EmptyBag]]

\* pd.read_sql_query("SELECT ID FROM my_table", conn), as a set
ExistingIds(s) == TableIds(s["my_table"])

\* df[~df["ID"].isin(existing_ids_set)]
NewData(df, ids) ==
    [cols |-> df.cols, rows |-> SelectSeq(df.rows, LAMBDA r : r["ID"] \notin ids)]

\* the table pandas creates for a frame: the frame's columns, no primary key
FrameTable(df) ==
    [exists |-> TRUE, pk |-> FALSE, cols |-> df.cols, rows |-> SeqToBag(df.rows)]

\* ToSqlReplace without the drop: the rows of the table stay
ToSqlReplace_KeepsRows(s, T, df) ==
    [raised |-> FALSE,
     store |-> [s EXCEPT ![T] = [FrameTable(df) EXCEPT !.rows = s[T].rows (+) SeqToBag(df.rows)]]]

\* df.to_sql(table_name, conn, if_exists="replace", ...): drop, create, insert
ToSqlReplace(s, T, df) ==
    [raised |-> FALSE, store |-> [s EXCEPT ![T] = FrameTable(df)]]

\* UNIQUE constraint on ID: two rows of the frame, or a row of the frame and a row of the table
KeyClash(t, df) ==
    \/ \E i, j \in DOMAIN df.rows : i # j /\ df.rows[i]["ID"] = df.rows[j]["ID"]
    \/ \E i \in DOMAIN df.rows : df.rows[i]["ID"] \in TableIds(t)

\* new_data.to_sql(table_name, conn, if_exists="append", ...): the INSERT is one
\* transaction that pandas rolls back when it raises
ToSqlAppend(s, T, df) ==
    IF ~s[T].exists
    THEN [raised |-> FALSE, store |-> [s EXCEPT ![T] = FrameTable(df)]]
    ELSE IF ~(df.cols \subseteq s[T].cols) \/ (s[T].pk /\ KeyClash(s[T], df))
    THEN [raised |-> TRUE, store |-> s]
    ELSE [raised |-> FALSE,
          store |-> [s EXCEPT ![T].rows = s[T].rows (+) SeqToBag(df.rows)]]

\* the if/else of insert_data_to_sqlite
WriteBatch(s, T, df, replace) ==
    IF replace
    THEN ToSqlReplace(s, T, df)
    ELSE LET new_data == NewData(df, ExistingIds(s))
         IN  IF new_data.rows = <<>>
             THEN [raised |-> FALSE, store |-> s]
             ELSE ToSqlAppend(s, T, new_data)

\* insert_data_to_sqlite(db_path, table_name, df, replace): [raised, store, conn].
\* conn.commit() and conn.close() are its last two statements; nothing catches
\* an exception, so a raise leaves the function with the connection open.
insert_data_to_sqlite(s, T, df, replace) ==
    LET res == WriteBatch(EnsureSchema(s), T, df, replace)
    IN  [raised |-> res.raised,
         store |-> res.store,
         conn |-> IF res.raised THEN "open" ELSE "closed"]

-----------------------------------------------------------------------------
(* Pipeline driver *)

\* the for loop over csv_files: [raised, df]
RECURSIVE CsvData(_)
CsvData(files) ==
    IF files = <<>>
    THEN [raised |-> FALSE, df |-> EmptyFrame]
    ELSE LET init == CsvData(SubSeq(files, 1, Len(files) - 1))
             last == preprocess_csv_data(files[Len(files)])
         IN  IF init.raised \/ last.raised
             THEN [raised |-> TRUE, df |-> EmptyFrame]
             ELSE [raised |-> FALSE, df |-> Concat(init.df, last.df)]

\* all_data = pd.concat([csv_data, u1_processed, u2_processed]): [raised, df]
AllData(files, u1_data, u2_data) ==
    LET csv_data == CsvData(files)
        u1_processed == preprocess_excel_data(u1_data, TRUE)
        u2_processed == preprocess_excel_data(u2_data, FALSE)
    IN  IF csv_data.raised \/ u1_processed.raised \/ u2_processed.raised
        THEN [raised |-> TRUE, df |-> EmptyFrame]
        ELSE [raised |-> FALSE,
              df |-> Concat(Concat(csv_data.df, u1_processed.df), u2_processed.df)]

\* db_path = "financial_data.db"; insert_data_to_sqlite(db_path, "financial_data", all_data)
DriverTable == "financial_data"

(* The files one run of the script may find.  CsvTravel holds one excluded *)
(* 海外出張 row; CsvEmptyMajor an excluded row with an empty 大項目 cell;    *)
(* CsvBadDate a row whose 日付 is no date.                                  *)
CsvTravel ==
    [cols |-> CsvCols, rows |-> <<CsvRow(1, 0, <<<<"x", "S", "C">>>>, "2024-01-05 10:30")>>]

CsvEmptyMajor == [cols |-> CsvCols, rows |-> <<CsvRow(3, 0, <<>>, "2024/01/05")>>]

CsvBadDate == [cols |-> CsvCols, rows |-> <<CsvRow(1, 1, <<<<"F">>>>, "n/a")>>]

DriverCsvFiles == {<<>>, <<CsvTravel>>, <<CsvTravel, CsvEmptyMajor>>, <<CsvBadDate>>}

SheetOf(cells, rows) ==
    [cols |-> SheetBaseCols \cup DOMAIN cells, rows |-> rows]

\* sheet U1: no row; one row 3000 - 1000 whose ID is also an ID of the CSV
DriverU1Sheets ==
    LET c == [U1AmountYen |-> 3000, U2Share |-> 1000]
    IN  {SheetOf(c, <<>>), SheetOf(c, <<SheetRow(1, c, <<>>)>>)}

\* sheet U2: no row; one row 900 * 1 / (1 + 2); one row with both ratios 0
DriverU2Sheets ==
    LET c == [U2AmountYen |-> 900, U1Ratio |-> 1, U2Ratio |-> 2]
        z == [U2AmountYen |-> 900, U1Ratio |-> 0, U2Ratio |-> 0]
    IN  {SheetOf(c, <<>>), SheetOf(c, <<SheetRow(2, c, <<>>)>>),
         SheetOf(z, <<SheetRow(2, z, <<>>)>>)}

-----------------------------------------------------------------------------
(* Batches handed to the store writer directly *)

BatchIds == {1, 2}

BatchAmounts == {Num(100)}

\* a frame whose columns are columns of my_table, and one with the 金額（円） of the normalizers
BatchShapes == {"Amount", "AmountYen"}

BatchRow(id, a, shape) ==
    SetCell([ID |-> id, IncludeInCalculation |-> 1], shape, a)

Batches ==
    {[cols |-> {"ID", "IncludeInCalculation", shape},
      rows |-> [i \in D |-> BatchRow(x[i][1], x[i][2], shape)]] :
        <<D, x, shape>> \in
            UNION {{<<D, x, shape>> : x \in [D -> BatchIds \X BatchAmounts],
                                      shape \in BatchShapes} :
                    D \in IndexSets(MaxBatch)}}

-----------------------------------------------------------------------------
(* Operations on the store *)

Rows(t) == BagCardinality(t.rows)

\* one call insert_data_to_sqlite(db_path, T, df, replace)
StoreWriterCall(T, df, replace) ==
    LET res == insert_data_to_sqlite(store, T, df, replace)
    IN  /\ store' = res.store
        /\ conn' = res.conn
        /\ outcome' = IF res.raised THEN "error" ELSE "ok"
        /\ stage' = "store"
        /\ callTable' = T
        /\ callDf' = df
        /\ callReplace' = replace
        /\ priorIds' = TableIds(store[T])
        /\ UNCHANGED <<csvVars, xlVars>>

\* a run that raises before insert_data_to_sqlite is reached
RunFails(at) ==
    /\ outcome' = "error"
    /\ stage' = at
    /\ conn' = "none"
    /\ UNCHANGED <<store, callTable, callDf, callReplace, priorIds, csvVars, xlVars>>

\* one run of the script, lines 152-177
PipelineRun(files, u1_data, u2_data) ==
    LET all_data == AllData(files, u1_data, u2_data)
        dated == convert_dates_to_string(all_data.df)
    IN  IF all_data.raised THEN RunFails("normalize")
        ELSE IF dated.raised THEN RunFails("dates")
        ELSE StoreWriterCall(DriverTable, dated.df, FALSE)

\* insert_data_to_sqlite(db_path, T, df), for any table name and batch
InsertAppend ==
    \E T \in TableNames, df \in Batches :
        /\ Rows(store[T]) + Len(df.rows) <= MaxRows
        /\ StoreWriterCall(T, df, FALSE)

\* insert_data_to_sqlite(db_path, T, df, replace=True), for any table name and batch
InsertReplace ==
    \E T \in TableNames, df \in Batches :
        /\ Len(df.rows) <= MaxRows
        /\ StoreWriterCall(T, df, TRUE)

\* the script, run on any of the files it may find
Pipeline ==
    \E files \in DriverCsvFiles, u1_data \in DriverU1Sheets, u2_data \in DriverU2Sheets :
        /\ Rows(store[DriverTable]) + Len(AllData(files, u1_data, u2_data).df.rows) <= MaxRows
        /\ PipelineRun(files, u1_data, u2_data)

-----------------------------------------------------------------------------
(* Specifications *)

CsvIdle == csvIn = EmptyFrame /\ csvOut = EmptyFrame /\ csvPc = "idle"

XlIdle == xlIn = EmptyFrame /\ xlU1 = FALSE /\ xlOut = EmptyFrame /\ xlPc = "idle"

StoreIdle ==
    /\ store = EmptyStore
    /\ conn = "none"
    /\ outcome = "none"
    /\ stage = "none"
    /\ callTable = DriverTable
    /\ callDf = EmptyFrame
    /\ callReplace = FALSE
    /\ priorIds = {}

\* insert_data_to_sqlite, called with any table name, batch and mode, from a new database file
Init == CsvIdle /\ XlIdle /\ StoreIdle

Next == InsertAppend \/ InsertReplace

Spec == Init /\ [][Next]_vars

\* runs of the script, from a new database file
NextPipeline == Pipeline

SpecPipeline == Init /\ [][NextPipeline]_vars

\* preprocess_csv_data on every frame of CsvFrames
InitCsv ==
    /\ csvIn \in CsvFrames
    /\ csvOut = EmptyFrame
    /\ csvPc = "ready"
    /\ XlIdle /\ StoreIdle

NextCsv == CsvPreprocess

SpecCsv == InitCsv /\ [][NextCsv]_vars

\* preprocess_excel_data on every sheet of U1Frames and U2Frames, with either u1
InitExcel ==
    /\ xlIn \in U1Frames \cup U2Frames
    /\ xlU1 \in BOOLEAN
    /\ xlOut = EmptyFrame
    /\ xlPc = "ready"
    /\ CsvIdle /\ StoreIdle

NextExcel == ExcelPreprocess

SpecExcel == InitExcel /\ [][NextExcel]_vars

-----------------------------------------------------------------------------
(* Properties of the CSV normalizer, under SpecCsv *)

\* the text x holds 出張: some character 出 of x is followed at once by 張
MatchesTravelRule(x) == \E i \in 1..(Len(x) - 1) : x[i] = "S" /\ x[i + 1] = "C"

FlagsAreZeroOrOne(df) ==
    \A i \in DOMAIN df.rows : FlagIs(df.rows[i], 0) \/ FlagIs(df.rows[i], 1)

IsTravelRow(r) ==
    FlagIs(r, 0) /\ HasCell(r, "MajorCategory") /\ MatchesTravelRule(r["MajorCategory"])

\* C7: when preprocess_csv_data returns for a frame whose 計算対象 flags are all 0 or 1,
\* every row with flag 1 is a row of the output with every cell unchanged, and every
\* row with flag 0 whose 大項目 holds 出張 is a row of the output with 大項目 = 出張
\* and every other cell unchanged.
C7_IncludedAndTravelRowsKept ==
    (csvPc = "returned" /\ FlagsAreZeroOrOne(csvIn)) =>
        \A i \in DOMAIN csvIn.rows :
            LET r == csvIn.rows[i]
            IN  /\ FlagIs(r, 1) => \E j \in DOMAIN csvOut.rows : csvOut.rows[j] = r
                /\ IsTravelRow(r) =>
                      \E j \in DOMAIN csvOut.rows :
                          csvOut.rows[j] = SetCell(r, "MajorCategory", <<"S", "C">>)

\* a returned frame of flags 0 and 1 with an included row and a row 海外出張 or 出張費
C7_Witness ==
    /\ csvPc = "returned"
    /\ FlagsAreZeroOrOne(csvIn)
    /\ \E i \in DOMAIN csvIn.rows : FlagIs(csvIn.rows[i], 1)
    /\ \E i \in DOMAIN csvIn.rows :
          IsTravelRow(csvIn.rows[i]) /\ csvIn.rows[i]["MajorCategory"] # <<"S", "C">>

\* C8 as claimed: a row with flag 0 is a row of the output only if its 大項目 holds 出張
\* (and then its 大項目 is 出張); a row with flag 0 whose 大項目 does not hold 出張 is
\* not retained.
C8_ExcludedRowsKeptOnlyIfTravel ==
    csvPc = "returned" =>
        /\ \A j \in DOMAIN csvOut.rows :
              FlagIs(csvOut.rows[j], 0) => csvOut.rows[j]["MajorCategory"] = <<"S", "C">>
        /\ \A i \in DOMAIN csvIn.rows :
              (FlagIs(csvIn.rows[i], 0) /\ ~IsTravelRow(csvIn.rows[i])) =>
                  \A j \in DOMAIN csvOut.rows : csvOut.rows[j] # csvIn.rows[i]

\* what preprocess_csv_data is to make of a row with flag 0
ExpectedZeroRow(r) ==
    IF IsTravelRow(r) THEN SetCell(r, "MajorCategory", <<"S", "C">>) ELSE r

\* C8 amended: every row with flag 0 is retained, after the rows with flag 1 and in
\* its order: with 大項目 = 出張 when its 大項目 holds 出張, unchanged when it does not.
C8_ExcludedRowsAllKept ==
    csvPc = "returned" =>
        LET zeros == SelectSeq(csvIn.rows, LAMBDA r : FlagIs(r, 0))
            ones == SelectSeq(csvIn.rows, LAMBDA r : FlagIs(r, 1))
        IN  /\ Len(csvOut.rows) = Len(ones) + Len(zeros)
            /\ \A k \in DOMAIN zeros :
                  csvOut.rows[Len(ones) + k] = ExpectedZeroRow(zeros[k])

\* a returned frame with a row 食費 of flag 0 next to a row of flag 0 that holds 出張
C8_Witness ==
    /\ csvPc = "returned"
    /\ \E i \in DOMAIN csvIn.rows :
          FlagIs(csvIn.rows[i], 0) /\ ~IsTravelRow(csvIn.rows[i])
          /\ csvIn.rows[i] \in Range(csvOut.rows)
    /\ \E i \in DOMAIN csvIn.rows : IsTravelRow(csvIn.rows[i])

-----------------------------------------------------------------------------
(* Properties of the spreadsheet normalizer, under SpecExcel *)

RatioSum(r) == r["U1Ratio"] + r["U2Ratio"]

IsU2Sheet(df) == AmountInputs(FALSE) \subseteq df.cols

\* C9 as claimed: preprocess_excel_data(df, u1=False) on a sheet with a row whose
\* U1 比率 + U2 比率 is 0 ends in an error; it returns no frame with an amount that is
\* inf, -inf or NaN.
C9_ZeroRatioSumRaises ==
    (xlPc # "ready" /\ ~xlU1 /\ IsU2Sheet(xlIn)
       /\ \E i \in DOMAIN xlIn.rows : RatioSum(xlIn.rows[i]) = 0)
    => /\ xlPc = "raised"
       /\ \A i \in DOMAIN xlOut.rows : IsFinite(xlOut.rows[i]["AmountYen"])

\* C10: in the frame preprocess_excel_data returns, row i has 金額（円） =
\* U1金額 (円) - U2 負担 of row i of a U1 sheet, and 金額（円） * (U1 比率 + U2 比率) =
\* U2金額 (円) * U1 比率 for row i of a U2 sheet whose ratios do not add up to 0;
\* 3000 and 1000 give 2000, and 900 with ratios 1 and 2 gives 300.
C10_SettledAmount ==
    xlPc = "returned" =>
        /\ Len(xlOut.rows) = Len(xlIn.rows)
        /\ \A i \in DOMAIN xlIn.rows :
              LET r == xlIn.rows[i]
                  a == xlOut.rows[i]["AmountYen"]
              IN  IF xlU1
                  THEN /\ a.den = 1
                       /\ a.num = r["U1AmountYen"] - r["U2Share"]
                       /\ (r["U1AmountYen"] = 3000 /\ r["U2Share"] = 1000) => a.num = 2000
                  ELSE RatioSum(r) # 0 =>
                       /\ a.den > 0
                       /\ a.num * RatioSum(r) = r["U2AmountYen"] * r["U1Ratio"] * a.den
                       /\ (r["U2AmountYen"] = 900 /\ r["U1Ratio"] = 1 /\ r["U2Ratio"] = 2)
                             => (a.num = 300 /\ a.den = 1)

\* a returned U2 sheet with the row 900, 1, 2 and a row whose amount is no integer
C10_Witness ==
    /\ xlPc = "returned"
    /\ ~xlU1
    /\ \E i \in DOMAIN xlIn.rows :
          /\ xlIn.rows[i]["U2AmountYen"] = 900
          /\ xlIn.rows[i]["U1Ratio"] = 1
          /\ xlIn.rows[i]["U2Ratio"] = 2
          /\ xlOut.rows[i]["AmountYen"] = [num |-> 300, den |-> 1]
    /\ \E i \in DOMAIN xlOut.rows : xlOut.rows[i]["AmountYen"].den > 1

-----------------------------------------------------------------------------
(* Properties of the store writer, under Spec and SpecPipeline *)

Returned == stage = "store" /\ outcome = "ok"

FrameIds(df) == {df.rows[i]["ID"] : i \in DOMAIN df.rows}

\* how many rows of the table have the ID id
RowsWithId(t, id) ==
    LET S == {r \in BagToSet(t.rows) : r["ID"] = id}
    IN  BagCardinality([r \in S |-> CopiesIn(r, t.rows)])

\* C1 as claimed: a call with replace=False that returns, made again at once with the
\* same table name and the same batch, leaves the table with the rows it had.
C1_AppendTwiceIsAppendOnce ==
    [][(Returned /\ ~callReplace /\ Returned' /\ ~callReplace'
          /\ callTable' = callTable /\ callDf' = callDf)
       => store'[callTable].rows = store[callTable].rows]_vars

\* C2 as claimed: no table of the store holds two rows with one ID.
C2_OneRowPerId ==
    \A T \in TableNames : \A id \in TableIds(store[T]) : RowsWithId(store[T], id) = 1

\* C3: after a call with replace=True that returns, the table holds each row of the
\* batch as often as the batch does and no other row; no ID that only the table had
\* before the call is left in it.
C3_ReplaceLeavesExactlyTheBatch ==
    (Returned /\ callReplace) =>
        /\ store[callTable].exists
        /\ BagToSet(store[callTable].rows) = Range(callDf.rows)
        /\ \A r \in Range(callDf.rows) :
              CopiesIn(r, store[callTable].rows)
                  = Cardinality({i \in DOMAIN callDf.rows : callDf.rows[i] = r})
        /\ \A id \in priorIds \ FrameIds(callDf) : id \notin TableIds(store[callTable])

\* a replace of a table that held an ID the batch does not have, by a batch with rows
C3_Witness ==
    /\ Returned
    /\ callReplace
    /\ callDf.rows # <<>>
    /\ priorIds \ FrameIds(callDf) # {}
    /\ TableIds(store[callTable]) = FrameIds(callDf)

\* C4 as claimed: after a call that returns, the table table_name exists with the ten
\* columns of the schema and ID as its primary key.
C4_TargetHasFullSchema ==
    Returned =>
        /\ store[callTable].exists
        /\ store[callTable].cols = FullSchema
        /\ store[callTable].pk

\* C5 as claimed: when control has left a call that opened the connection, the
\* connection is closed.
C5_ConnectionClosedOnExit == stage = "store" => conn = "closed"

\* C6 as claimed: a run in append mode that ends in an error leaves every table of the
\* store as it was: none created, no row added, removed or changed.
C6_FailedRunChangesNothing ==
    [][(outcome' = "error" /\ ~callReplace') => store' = store]_vars

====
